---- MODULE Spec2Model ----
(***************************************************************************)
(* A model of the FileStorage service of Aurora OS                         *)
(* (src/src/services/fileStorage.ts): tier selection, the native copy and  *)
(* the chunked write of saveFile, over the Capacitor Filesystem bridge.    *)
(*                                                                         *)
(* Bytes are not enumerated.  A run of bytes is a segment                  *)
(* [src, lo, hi]: the bytes lo .. hi-1 of the source named src.  The       *)
(* content of a stored file is a sequence of segments, so that an append   *)
(* out of order, a gap, an overlap or a trailing empty chunk is visible.   *)
(***************************************************************************)
EXTENDS Integers, Sequences, FiniteSets, TLC

(***************************************************************************)
(* Bounds of the model.                                                    *)
(***************************************************************************)
\* saveFile invocations in one run (they may all be in flight together)
MaxSaves == 2
\* the largest file holds MaxChunks full chunks
MaxChunks == 3
\* Date.now() takes the values 0 .. MaxClock
MaxClock == 1
\* at most MaxDeletes calls of deleteFile
MaxDeletes == 2

\* convertFileSrc is called on strings of up to MaxUriTokens tokens
MaxUriTokens == 3

\* at most MaxToasts toasts are created through one upload handle
MaxToasts == 3

\* updateProgress is called with 0, 10, ..., 10 * MaxProgressSteps
MaxProgressSteps == 12

\* shouldUseNativeStorage is queried on sizes up to MaxQuarters quarter-MiB
MaxQuarters == 24
\* getCategory is queried on MIME strings of up to MaxMimeTokens tokens
MaxMimeTokens == 3

(***************************************************************************)
(* Program constants.                                                      *)
(***************************************************************************)
\* const FILE_SIZE_THRESHOLD = 1 * 1024 * 1024
FILE_SIZE_THRESHOLD == 1 * 1024 * 1024

\* const chunkSize = 1024 * 1024 in saveFileChunked
chunkSize == 1024 * 1024

\* the tier boundary the header comment of the service documents (5MB)
DocumentedThreshold == 5 * 1024 * 1024

(***************************************************************************)
(* Option values: <<>> is undefined / null, <<x>> is the value x.          *)
(***************************************************************************)
Undefined == <<>>

Some(x) == <<x>>

\* JavaScript truthiness of an optional string: undefined and "" are falsy
Truthy(opt) == opt # Undefined /\ opt[1] # ""

VARIABLES
    native,     \* Capacitor.isNativePlatform()
    now,        \* Date.now()
    calls,      \* the saveFile invocations: call id -> its locals and position
    fs,         \* Directory.Data: path -> content (a sequence of segments)
    blobNext,   \* object URLs handed out by URL.createObjectURL so far
    blobLive,   \* object URLs not revoked
    query,      \* the last shouldUseNativeStorage call: <<>> or <<[fileSize, result]>>
    catQuery,   \* the last getCategory call: <<>> or <<[mimeType, result]>>
    dels,       \* the deleteFile invocations, in the order they were made
    stats,      \* the getNativeStorageStats invocation
    listing,    \* the getNativeStorageFiles invocation
    conv,       \* the last convertFileSrc call: <<>> or <<[uri, result]>>
    upload      \* one notify.uploadProgress handle and the toasts on screen

\* the state of the operations other than saveFile and the tier query
others == <<catQuery, dels, stats, listing, conv, upload>>

vars == <<native, now, calls, fs, blobNext, blobLive, query, others>>

(***************************************************************************)
(* A string the code inspects is a sequence of tokens, so that startsWith, *)
(* split and substring are computed, not assumed.  A token is one of the   *)
(* characters the code looks for ("/", ".", "_"), one character of a       *)
(* string the code cuts by position (the random string, a number's         *)
(* digits), or a whole run of other characters ("video", "mp4").           *)
(***************************************************************************)
Min(a, b) == IF a <= b THEN a ELSE b

\* String.prototype.startsWith
StartsWith(s, prefix) ==
    Len(s) >= Len(prefix) /\ SubSeq(s, 1, Len(prefix)) = prefix

\* String.prototype.substring(from, to) for 0 <= from <= to (0-based,
\* clamped), on a string of one-character tokens
Substring(s, from, to) == SubSeq(s, Min(from, Len(s)) + 1, Min(to, Len(s)))

\* String.prototype.split(sep) for a one-character separator: the parts
\* between the separator tokens
RECURSIVE SplitFrom(_, _, _)
SplitFrom(s, sep, cur) ==
    IF s = <<>> THEN <<cur>>
    ELSE IF Head(s) = sep THEN <<cur>> \o SplitFrom(Tail(s), sep, <<>>)
    ELSE SplitFrom(Tail(s), sep, Append(cur, Head(s)))

Split(s, sep) == SplitFrom(s, sep, <<>>)

\* Array.prototype.pop on a non-empty array: its last element
Pop(arr) == arr[Len(arr)]

\* the decimal digits of a natural number, as `${n}` prints it
RECURSIVE Digits(_)
Digits(n) ==
    LET d == <<"0", "1", "2", "3", "4", "5", "6", "7", "8", "9">>[(n % 10) + 1]
    IN  IF n < 10 THEN <<d>> ELSE Append(Digits(n \div 10), d)

str_video == <<"video", "/">>

str_audio == <<"audio", "/">>

str_image == <<"image", "/">>

str_videos == <<"videos">>

str_audios == <<"audio">>

str_images == <<"images">>

str_documents == <<"documents">>

str_bin == <<"bin">>

str_root == <<"aurora-files">>

(***************************************************************************)
(* The inputs: File objects handed to saveFile, results of Math.random(),  *)
(* sizes handed to shouldUseNativeStorage.                                 *)
(***************************************************************************)
\* a File: name, size, type, the bytes it holds (a label for its byte
\* sequence), and the path / webPath Capacitor Android may inject
MkFile(name, size, type, bytes, path, webPath) ==
    [name |-> name, size |-> size, type |-> type, bytes |-> bytes,
     path |-> path, webPath |-> webPath]

\* sizes around every multiple of the chunk size up to MaxChunks chunks
ChunkSizes ==
    {s \in {k * chunkSize + d : k \in 0..MaxChunks, d \in {-1, 0, 1}} :
        s >= 0 /\ s <= MaxChunks * chunkSize}

\* files picked in a web picker: no native path
PickedFiles ==
    {MkFile(<<"clip", ".", "mp4">>, s,
            str_video \o <<"mp4">>, "clip", Undefined, Undefined) :
        s \in ChunkSizes}
    \cup
    {MkFile(<<"README">>, chunkSize + 1, <<>>, "readme",
            Undefined, Some(""))}

\* files Capacitor Android injected a path or a webPath into
InjectedFiles ==
    {MkFile(<<"song", ".", "mp3">>, 2 * chunkSize + 1,
            str_audio \o <<"mpeg">>, "song",
            Some("content://media/external/audio/7"), Undefined),
     MkFile(<<"photo", ".", "png">>, 1,
            str_image \o <<"png">>, "photo",
            Undefined, Some("capacitor://localhost/_capacitor_file_/photo.png")),
     MkFile(<<"clip", ".", "mp4">>, chunkSize,
            str_video \o <<"mp4">>, "clip",
            Some(""), Some("file:///storage/emulated/0/DCIM/clip.mp4"))}

Files == PickedFiles \cup InjectedFiles

\* the files saved concurrently: one to write in two chunks and one to
\* copy, both of one category and extension
ConcurrentFiles ==
    {f \in PickedFiles : f.bytes = "clip" /\ f.size = chunkSize + 1}
    \cup {f \in InjectedFiles : f.bytes = "clip"}

\* Math.random().toString(36) for two results of Math.random():
\* a long fraction and 0.5, which prints as "0.i"
RandomStrings ==
    {<<"0", ".", "k", "3", "x", "9", "q", "a", "7", "z", "f">>,
     <<"0", ".", "i">>}

\* sizes on and next to every quarter of the threshold
TierSizes ==
    {s \in {k * (FILE_SIZE_THRESHOLD \div 4) + d :
                k \in 0..MaxQuarters, d \in {-1, 0, 1}} : s >= 0}

\* the strings of exactly n tokens over a set of tokens
RECURSIVE StringsOf(_, _)
StringsOf(tokens, n) ==
    IF n = 0 THEN {<<>>}
    ELSE {Append(s, t) : s \in StringsOf(tokens, n - 1), t \in tokens}

\* MIME strings handed to getCategory: well-formed ones, and ones that
\* lack the slash, differ in case or carry the type further in
MimeTypes ==
    UNION {StringsOf({"video", "audio", "image", "/", "Video", "mp4"}, n) :
              n \in 0..MaxMimeTokens}

(***************************************************************************)
(* Pure functions of the service.                                          *)
(***************************************************************************)
\* isSupportedCapacitor(): Capacitor.isNativePlatform()
isSupportedCapacitor == native

\* a faulty variant of getCategory: the prefixes without their slash
getCategory_noSlash(mimeType) ==
    IF StartsWith(mimeType, <<"video">>) THEN str_videos
    ELSE IF StartsWith(mimeType, <<"audio">>) THEN str_audios
    ELSE IF StartsWith(mimeType, <<"image">>) THEN str_images
    ELSE str_documents

\* getCategory(mimeType)
getCategory(mimeType) ==
    IF StartsWith(mimeType, str_video) THEN str_videos
    ELSE IF StartsWith(mimeType, str_audio) THEN str_audios
    ELSE IF StartsWith(mimeType, str_image) THEN str_images
    ELSE str_documents

\* generateFilename(originalName), with Date.now() and
\* Math.random().toString(36) passed in
generateFilename(originalName, timestamp, randomString) ==
    LET random == Substring(randomString, 2, 8)
        last   == Pop(Split(originalName, "."))
        ext    == IF last # <<>> THEN last ELSE str_bin
    IN  Digits(timestamp) \o <<"_">> \o random \o <<".">> \o ext

\* `aurora-files/${category}/${filename}`
DestinationPath(category, filename) ==
    str_root \o <<"/">> \o category \o <<"/">> \o filename

\* a faulty variant of shouldUseNativeStorage: a strict comparison
shouldUseNativeStorage_strict(fileSize) ==
    isSupportedCapacitor /\ fileSize > FILE_SIZE_THRESHOLD

\* shouldUseNativeStorage(fileSize)
shouldUseNativeStorage(fileSize) ==
    isSupportedCapacitor /\ fileSize >= FILE_SIZE_THRESHOLD

\* const sourceUri = file.path || file.webPath
SourceUri(file) == IF Truthy(file.path) THEN file.path ELSE file.webPath

(***************************************************************************)
(* Blobs and the Base64 transfer encoding.                                 *)
(***************************************************************************)
\* a run of bytes: the bytes lo .. hi-1 of the byte sequence named src
Segment(src, lo, hi) == [src |-> src, lo |-> lo, hi |-> hi]

\* Blob.prototype.slice(start, end) on a File, 0 <= start: both ends are
\* clamped to the size, and the slice carries no content type
Slice(file, start, end) ==
    LET lo == Min(start, file.size)
        hi == IF Min(end, file.size) < lo THEN lo ELSE Min(end, file.size)
    IN  Segment(file.bytes, lo, hi)

\* the bridge's data argument: Base64 text of `length` characters that
\* decodes to the segments `bytes`; `defined` is FALSE for undefined
Base64(segment) ==
    [defined |-> TRUE,
     length  |-> 4 * (((segment.hi - segment.lo) + 2) \div 3),
     bytes   |-> <<segment>>]

NoData == [defined |-> FALSE, length |-> 0, bytes |-> <<>>]

\* FileReader.readAsDataURL(blob), already split at its commas: an empty
\* blob reads as "data:", any other as "data:<type>;base64,<text>"
ReadAsDataURL(blob) ==
    IF blob.hi = blob.lo THEN <<"data:">>
    ELSE <<"data:application/octet-stream;base64", Base64(blob)>>

\* blobToBase64(blob): reader.result.split(',')[1]
blobToBase64(blob) ==
    LET parts == ReadAsDataURL(blob)
    IN  IF Len(parts) >= 2 THEN parts[2] ELSE NoData

\* what the native side stores for a data argument: the decoded bytes
Decode(data) == data.bytes

(***************************************************************************)
(* The Capacitor Filesystem bridge: the calls and their effect on          *)
(* Directory.Data.  A failed call leaves the directory as it was.          *)
(***************************************************************************)
BridgeCall(op, path, from, fromDirectory, recursive, data, ok) ==
    [op |-> op, path |-> path, directory |-> "DATA", from |-> from,
     fromDirectory |-> fromDirectory, recursive |-> recursive,
     data |-> data, ok |-> ok]

\* the rejection of the n-th bridge call of a save
BridgeError(op, n) == [op |-> op, n |-> n]

\* Filesystem.getUri({path, directory: Directory.Data}).uri
GetUri(path) == <<"file:///data/user/0/com.auroraos.app/files/">> \o path

\* URL.createObjectURL: a fresh blob: URL
CreateObjectURL(n) == <<"blob:", "http://localhost/">> \o Digits(n)

Exists(path) == path \in DOMAIN fs

\* writeFile and copy create or replace the file at path
Stored(path, content) == (path :> content) @@ fs

\* appendFile adds to the file at path, creating it when it is absent
Appended(path, content) ==
    (path :> ((IF Exists(path) THEN fs[path] ELSE <<>>) \o content)) @@ fs

(***************************************************************************)
(* saveFile and saveFileChunked, one action per stretch of code between    *)
(* two awaits.  A call's position is pc:                                   *)
(*   idle       not invoked yet                                            *)
(*   copy       awaiting Filesystem.copy (attempt 1 or 2)                  *)
(*   read       awaiting blobToBase64 of the chunk at offset               *)
(*   writeFile  awaiting Filesystem.writeFile of the first chunk           *)
(*   appendFile awaiting Filesystem.appendFile of a later chunk            *)
(*   yield      awaiting setTimeout(r, 0)                                  *)
(*   getUri     awaiting Filesystem.getUri                                 *)
(*   done       resolved with result                                       *)
(*   failed     rejected with error                                        *)
(***************************************************************************)
Calls == 1..MaxSaves

IdleCall ==
    [pc |-> "idle", file |-> Undefined, path |-> <<>>, sourceUri |-> Undefined,
     attempt |-> 0, offset |-> 0, isFirstChunk |-> TRUE, base64 |-> NoData,
     log |-> <<>>, result |-> Undefined, error |-> Undefined]

\* the result object saveFile returns
SaveFileResult(uri, file) ==
    [uri |-> uri, size |-> file.size, mimeType |-> file.type]

\* a faulty variant: the rejection is dropped and a reference returned
Rejected_resolved(r, err) ==
    [r EXCEPT !.pc = "done",
              !.result = Some(SaveFileResult(GetUri(r.path), r.file))]

\* a call rejected with err
Rejected(r, err) == [r EXCEPT !.pc = "failed", !.error = Some(err)]

\* a faulty variant: while (offset <= file.size)
WhileOffset_inclusive(r) ==
    IF r.offset <= r.file.size
    THEN [r EXCEPT !.pc = "read"]
    ELSE [r EXCEPT !.pc = "getUri"]

\* the head of the while loop of saveFileChunked, run at entry and after
\* every yield: another chunk is read, or the loop ends and saveFile goes
\* on to getUri
WhileOffset(r) ==
    IF r.offset < r.file.size
    THEN [r EXCEPT !.pc = "read"]
    ELSE [r EXCEPT !.pc = "getUri"]

\* saveFile where Capacitor is absent: an object URL, no bridge call
SaveFileWeb(c, file) ==
    LET blobUrl == CreateObjectURL(blobNext + 1)
    IN  /\ calls' = [calls EXCEPT ![c] =
                        [@ EXCEPT !.pc = "done", !.file = file,
                                  !.result = Some(SaveFileResult(blobUrl, file))]]
        /\ blobNext' = blobNext + 1
        /\ blobLive' = blobLive \cup {blobUrl}

\* saveFile on the native platform, up to its first await
SaveFileNative(c, file, randomString) ==
    LET category  == getCategory(file.type)
        filename  == generateFilename(file.name, now, randomString)
        path      == DestinationPath(category, filename)
        sourceUri == SourceUri(file)
        started   == [calls[c] EXCEPT !.file = file, !.path = path,
                                      !.sourceUri = sourceUri]
    IN  /\ calls' = [calls EXCEPT ![c] =
                        IF Truthy(sourceUri)
                        THEN [started EXCEPT !.pc = "copy", !.attempt = 1]
                        ELSE WhileOffset(started)]
        /\ UNCHANGED <<blobNext, blobLive>>

\* a faulty variant of saveFile: the platform test inverted
SaveFile_inverted(c, file, randomString) ==
    /\ calls[c].pc = "idle"
    /\ \A d \in 1..(c - 1) : calls[d].pc # "idle"
    /\ IF isSupportedCapacitor
       THEN SaveFileWeb(c, file)
       ELSE SaveFileNative(c, file, randomString)
    /\ UNCHANGED <<others, native, now, fs, query>>

\* a faulty variant of saveFile: native storage only where
\* shouldUseNativeStorage recommends it
SaveFile_gated(c, file, randomString) ==
    /\ calls[c].pc = "idle"
    /\ \A d \in 1..(c - 1) : calls[d].pc # "idle"
    /\ IF ~isSupportedCapacitor \/ ~shouldUseNativeStorage(file.size)
       THEN SaveFileWeb(c, file)
       ELSE SaveFileNative(c, file, randomString)
    /\ UNCHANGED <<others, native, now, fs, query>>

\* saveFile(file) is invoked
SaveFile(c, file, randomString) ==
    /\ calls[c].pc = "idle"
    /\ \A d \in 1..(c - 1) : calls[d].pc # "idle"
    /\ IF ~isSupportedCapacitor
       THEN SaveFileWeb(c, file)
       ELSE SaveFileNative(c, file, randomString)
    /\ UNCHANGED <<others, native, now, fs, query>>

Logged(r, call) == [r EXCEPT !.log = Append(@, call)]

\* Filesystem.copy({from, to: path, toDirectory: Data, directory: External}),
\* and in the catch handler the same without directory
CopyCall(r, ok) ==
    BridgeCall("copy", r.path, r.sourceUri,
               IF r.attempt = 1 THEN Some("EXTERNAL") ELSE Undefined,
               FALSE, NoData, ok)

\* a faulty variant: after the copy the chunked write runs as well
AfterCopy_thenChunked(r) == WhileOffset(r)

\* the copy resolved: saveFile goes on to getUri
AfterCopy(r) == [r EXCEPT !.pc = "getUri"]

\* a faulty variant: a second failed copy falls back to the chunked write
AfterCopyFailed_fallback(r) ==
    IF r.attempt = 1
    THEN [r EXCEPT !.attempt = 2]
    ELSE WhileOffset(r)

\* the copy rejected: the catch handler of the first attempt copies again,
\* the rejection of the second attempt is the rejection of saveFile
AfterCopyFailed(r) ==
    IF r.attempt = 1
    THEN [r EXCEPT !.attempt = 2]
    ELSE Rejected(r, BridgeError("copy", Len(r.log)))

\* Filesystem.copy settles
CopyDone(c, ok) ==
    LET r == calls[c]
        logged == Logged(r, CopyCall(r, ok))
    IN  /\ r.pc = "copy"
        /\ IF ok
           THEN /\ fs' = Stored(r.path, <<Segment(r.file.bytes, 0, r.file.size)>>)
                /\ calls' = [calls EXCEPT ![c] = AfterCopy(logged)]
           ELSE /\ fs' = fs
                /\ calls' = [calls EXCEPT ![c] = AfterCopyFailed(logged)]
        /\ UNCHANGED <<others, native, now, blobNext, blobLive, query>>

\* a faulty variant: file.slice(offset, chunkSize), a length taken for an end
Chunk_length(r) == Slice(r.file, r.offset, chunkSize)

\* const chunk = file.slice(offset, offset + chunkSize)
Chunk(r) == Slice(r.file, r.offset, r.offset + chunkSize)

\* blobToBase64(chunk) settles; on success the chunk is handed to
\* writeFile (first chunk) or appendFile
ReadDone(c, ok) ==
    LET r == calls[c]
    IN  /\ r.pc = "read"
        /\ calls' = [calls EXCEPT ![c] =
                        IF ok
                        THEN [r EXCEPT !.base64 = blobToBase64(Chunk(r)),
                                       !.pc = IF r.isFirstChunk THEN "writeFile"
                                              ELSE "appendFile"]
                        ELSE Rejected(r, BridgeError("readAsDataURL", Len(r.log)))]
        /\ UNCHANGED <<others, native, now, fs, blobNext, blobLive, query>>

\* a faulty variant: the offset is not advanced
AfterChunk_noAdvance(r) == [r EXCEPT !.isFirstChunk = FALSE, !.pc = "yield"]

\* a faulty variant: no yield, the loop goes on at once
AfterChunk_noYield(r) ==
    WhileOffset([r EXCEPT !.isFirstChunk = FALSE, !.offset = @ + chunkSize])

\* a faulty variant: isFirstChunk is never cleared, every chunk is written
\* with writeFile
AfterChunk_stillFirst(r) ==
    [r EXCEPT !.offset = @ + chunkSize, !.pc = "yield"]

\* a faulty variant: getUri is looked up as soon as one chunk is written
AfterChunk_early(r) ==
    [r EXCEPT !.isFirstChunk = FALSE, !.offset = @ + chunkSize, !.pc = "getUri"]

\* the chunk is written: offset += chunkSize, then the yield to the UI thread
AfterChunk(r) ==
    [r EXCEPT !.isFirstChunk = FALSE, !.offset = @ + chunkSize, !.pc = "yield"]

\* Filesystem.writeFile({path, data: base64, directory: Data, recursive: true})
\* settles
WriteFileDone(c, ok) ==
    LET r == calls[c]
        logged == Logged(r, BridgeCall("writeFile", r.path, Undefined, Undefined,
                                       TRUE, r.base64, ok))
    IN  /\ r.pc = "writeFile"
        /\ IF ok
           THEN /\ fs' = Stored(r.path, Decode(r.base64))
                /\ calls' = [calls EXCEPT ![c] = AfterChunk(logged)]
           ELSE /\ fs' = fs
                /\ calls' = [calls EXCEPT ![c] =
                                Rejected(logged, BridgeError("writeFile", Len(logged.log)))]
        /\ UNCHANGED <<others, native, now, blobNext, blobLive, query>>

\* Filesystem.appendFile({path, data: base64, directory: Data}) settles
AppendFileDone(c, ok) ==
    LET r == calls[c]
        logged == Logged(r, BridgeCall("appendFile", r.path, Undefined, Undefined,
                                       FALSE, r.base64, ok))
    IN  /\ r.pc = "appendFile"
        /\ IF ok
           THEN /\ fs' = Appended(r.path, Decode(r.base64))
                /\ calls' = [calls EXCEPT ![c] = AfterChunk(logged)]
           ELSE /\ fs' = fs
                /\ calls' = [calls EXCEPT ![c] =
                                Rejected(logged, BridgeError("appendFile", Len(logged.log)))]
        /\ UNCHANGED <<others, native, now, blobNext, blobLive, query>>

\* the timer of `await new Promise(r => setTimeout(r, 0))` fires
Yielded(c) ==
    /\ calls[c].pc = "yield"
    /\ calls' = [calls EXCEPT ![c] = WhileOffset(calls[c])]
    /\ UNCHANGED <<others, native, now, fs, blobNext, blobLive, query>>

\* a faulty variant: a rejected getUri is swallowed and the path returned
AfterGetUri_swallow(r, ok) ==
    [r EXCEPT !.pc = "done",
              !.result = Some(SaveFileResult(IF ok THEN GetUri(r.path) ELSE r.path,
                                             r.file))]

\* getUri settled: saveFile returns the result, or rethrows the rejection
AfterGetUri(r, ok) ==
    IF ok
    THEN [r EXCEPT !.pc = "done",
                   !.result = Some(SaveFileResult(GetUri(r.path), r.file))]
    ELSE Rejected(r, BridgeError("getUri", Len(r.log)))

\* Filesystem.getUri({path, directory: Data}) settles
GetUriDone(c, ok) ==
    LET r == calls[c]
        logged == Logged(r, BridgeCall("getUri", r.path, Undefined, Undefined,
                                       FALSE, NoData, ok))
    IN  /\ r.pc = "getUri"
        /\ calls' = [calls EXCEPT ![c] = AfterGetUri(logged, ok)]
        /\ UNCHANGED <<others, native, now, fs, blobNext, blobLive, query>>

\* a millisecond passes (seen only by a saveFile invoked later)
Tick ==
    /\ now < MaxClock
    /\ \E c \in Calls : calls[c].pc = "idle"
    /\ now' = now + 1
    /\ UNCHANGED <<others, native, calls, fs, blobNext, blobLive, query>>

\* shouldUseNativeStorage(fileSize) is called
QueryTier(fileSize) ==
    /\ query' = Some([fileSize |-> fileSize,
                      result |-> shouldUseNativeStorage(fileSize)])
    /\ UNCHANGED <<others, native, now, calls, fs, blobNext, blobLive>>

\* getCategory(mimeType) is called (by saveFile; here on its own)
QueryCategory(mimeType) ==
    /\ catQuery' = Some([mimeType |-> mimeType, result |-> getCategory(mimeType)])
    /\ UNCHANGED <<native, now, calls, fs, blobNext, blobLive, query,
                   dels, stats, listing, conv, upload>>

\* a scan that has not been invoked
IdleScan == [pc |-> "idle"]

\* the closure notify.uploadProgress returns (toastId = null,
\* currentProgress = 0), no toast on screen, no toast id handed out
NewUpload ==
    [toastId |-> Undefined, currentProgress |-> 0, live |-> <<>>, issued |-> 0]

(***************************************************************************)
(* Directory.Data as earlier saves left it.                                *)
(***************************************************************************)
\* the long result of Math.random().toString(36)
str_random == CHOOSE rs \in RandomStrings : Len(rs) > 8

\* what a completed native save of file at timestamp leaves in Directory.Data
SavedFile(file, timestamp) ==
    [path    |-> DestinationPath(getCategory(file.type),
                                 generateFilename(file.name, timestamp, str_random)),
     content |-> <<Segment(file.bytes, 0, file.size)>>]

\* the files earlier saves left: one of each injected file, and a second
\* video saved a millisecond later
PersistedSaves ==
    {SavedFile(file, 0) : file \in InjectedFiles}
    \cup {SavedFile(file, 1) : file \in ConcurrentFiles \cap PickedFiles}

Storage(saved) ==
    [path \in {e.path : e \in saved} |->
        (CHOOSE e \in saved : e.path = path).content]

\* the contents of Directory.Data after any of the earlier saves
Storages == {Storage(saved) : saved \in SUBSET PersistedSaves}

\* the file system without the file at path
Removed(path) == [q \in (DOMAIN fs) \ {path} |-> fs[q]]

(***************************************************************************)
(* deleteFile.                                                             *)
(***************************************************************************)
\* uri.match(/aurora-files\/.+/): the leftmost "aurora-files/" followed by
\* one character at least, with the rest of the string; null without one
Match(uri) ==
    LET at == {i \in 1..(Len(uri) - 2) : uri[i] = str_root[1] /\ uri[i + 1] = "/"}
    IN  IF at = {} THEN Undefined
        ELSE Some(SubSeq(uri, CHOOSE i \in at : \A j \in at : i <= j, Len(uri)))

\* the segments of a path with every ".." applied to what precedes it, as
\* the file system resolves them
RECURSIVE ResolveFrom(_, _)
ResolveFrom(segments, resolved) ==
    IF segments = <<>> THEN resolved
    ELSE IF Head(segments) = <<"..">>
         THEN ResolveFrom(Tail(segments),
                          SubSeq(resolved, 1, Len(resolved) - 1))
         ELSE ResolveFrom(Tail(segments), Append(resolved, Head(segments)))

RECURSIVE Join(_, _)
Join(segments, sep) ==
    IF segments = <<>> THEN <<>>
    ELSE IF Len(segments) = 1 THEN segments[1]
    ELSE segments[1] \o <<sep>> \o Join(Tail(segments), sep)

\* the file of Directory.Data that a path handed to the bridge denotes
Resolve(path) == Join(ResolveFrom(Split(path, "/"), <<>>), "/")

\* references handed to deleteFile that no save of this session returned:
\* a file outside Directory.Data, a path leaving the root through "..",
\* a web address that holds the path of a stored file, the bare root
ForeignUris ==
    {<<"file:///storage/emulated/0/DCIM/clip.mp4">>,
     GetUri(str_root \o <<"/", "..", "/", "databases", "/", "app", ".", "db">>),
     <<"https://cdn.example.com/">>
         \o SavedFile(CHOOSE f \in InjectedFiles : f.bytes = "song", 0).path,
     GetUri(str_root \o <<"/">>)}

\* the references deleteFile is called on
DeleteUris ==
    {GetUri(e.path) : e \in PersistedSaves}
    \cup {CreateObjectURL(n) : n \in 1..2}
    \cup ForeignUris

\* a call of deleteFile(uri) at its entry
NewDelete(uri) ==
    [uri |-> uri, pc |-> "done", path |-> Undefined, log |-> <<>>,
     revoked |-> FALSE, consoleErrors |-> 0, error |-> Undefined]

\* a faulty variant: revokeObjectURL without the test of the prefix
DeleteFileWeb_noTest(uri) ==
    /\ dels' = Append(dels, [NewDelete(uri) EXCEPT !.revoked = TRUE])
    /\ blobLive' = blobLive \ {uri}

\* deleteFile where Capacitor is absent
DeleteFileWeb(uri) ==
    IF StartsWith(uri, <<"blob:">>)
    THEN /\ dels' = Append(dels, [NewDelete(uri) EXCEPT !.revoked = TRUE])
         /\ blobLive' = blobLive \ {uri}
    ELSE /\ dels' = Append(dels, NewDelete(uri))
         /\ blobLive' = blobLive

\* deleteFile on the native platform, up to its await
DeleteFileNative(uri) ==
    LET match == Match(uri)
    IN  /\ dels' = Append(dels,
                      IF match # Undefined
                      THEN [NewDelete(uri) EXCEPT !.pc = "deleteFile",
                                                  !.path = match]
                      ELSE NewDelete(uri))
        /\ blobLive' = blobLive

\* deleteFile(uri) is invoked
DeleteFile(uri) ==
    /\ Len(dels) < MaxDeletes
    /\ IF ~isSupportedCapacitor
       THEN DeleteFileWeb(uri)
       ELSE DeleteFileNative(uri)
    /\ UNCHANGED <<native, now, calls, fs, blobNext, query, catQuery,
                   stats, listing, conv, upload>>

\* a faulty variant: no try/catch, the rejection reaches the caller
AfterDelete_rethrow(r, ok) ==
    [r EXCEPT !.pc = "done",
              !.error = IF ok THEN Undefined
                        ELSE Some(BridgeError("deleteFile", Len(r.log)))]

\* a faulty variant: a rejected delete is tried once more
AfterDelete_retry(r, ok) ==
    IF ok \/ Len(r.log) >= 2
    THEN [r EXCEPT !.pc = "done"]
    ELSE [r EXCEPT !.consoleErrors = @ + 1]

\* the bridge delete settled: deleteFile returns, after console.error in
\* the catch block when it rejected
AfterDelete(r, ok) ==
    [r EXCEPT !.pc = "done",
              !.consoleErrors = IF ok THEN @ ELSE @ + 1]

\* Filesystem.deleteFile({path: match[0], directory: Data}) settles; it
\* rejects when there is no such file, and may reject when there is
DeleteFileDone(d, ok) ==
    LET r == dels[d]
        logged == Logged(r, BridgeCall("deleteFile", r.path[1], Undefined,
                                       Undefined, FALSE, NoData, ok))
    IN  /\ r.pc = "deleteFile"
        /\ ok => Exists(Resolve(r.path[1]))
        /\ fs' = IF ok THEN Removed(Resolve(r.path[1])) ELSE fs
        /\ dels' = [dels EXCEPT ![d] = AfterDelete(logged, ok)]
        /\ UNCHANGED <<native, now, calls, blobNext, blobLive, query, catQuery,
                       stats, listing, conv, upload>>

(***************************************************************************)
(* getNativeStorageStats.                                                  *)
(***************************************************************************)
\* const categories = ['videos', 'audio', 'images', 'documents']
categories == <<str_videos, str_audios, str_images, str_documents>>

\* `aurora-files/${cat}`
CategoryPath(cat) == str_root \o <<"/">> \o cat

\* `aurora-files/${cat}/${file.name}`
EntryPath(cat, name) == CategoryPath(cat) \o <<"/">> \o name

\* the names of the files stored in a directory
EntryNames(dir) ==
    {SubSeq(path, Len(dir) + 2, Len(path)) :
        path \in {q \in DOMAIN fs : StartsWith(q, dir \o <<"/">>)}}

\* result.files of a resolved readdir: the entries in any order
Listings(dir) ==
    LET names == EntryNames(dir)
        n     == Cardinality(names)
    IN  {files \in [1..n -> names] :
            \A i, j \in 1..n : files[i] = files[j] => i = j}

\* the number of bytes of a stored content, stat.size
RECURSIVE ByteLength(_)
ByteLength(segs) ==
    IF segs = <<>> THEN 0
    ELSE (Head(segs).hi - Head(segs).lo) + ByteLength(Tail(segs))

\* a readdir or stat call of a scan with its outcome
ScanCall(op, path, ok, files, size) ==
    [op |-> op, path |-> path, directory |-> "DATA", ok |-> ok,
     files |-> files, size |-> size]

\* a scan at its entry
NewScan ==
    [pc |-> "readdir", cat |-> 1, entries |-> <<>>, totalCount |-> 0,
     totalSize |-> 0, files |-> <<>>, log |-> <<>>, error |-> Undefined]

\* the loops of a scan after an entry or a category is dealt with: the next
\* entry of result.files, else the next category, else the return
Advance(r) ==
    IF r.entries # <<>> THEN [r EXCEPT !.pc = "stat"]
    ELSE IF r.cat < Len(categories)
         THEN [r EXCEPT !.pc = "readdir", !.cat = @ + 1]
         ELSE [r EXCEPT !.pc = "done"]

\* a faulty variant: a rejected readdir ends the scan
AfterReaddirFailed_abort(r) == [r EXCEPT !.pc = "done"]

\* the inner catch of a rejected readdir ("Category directory might not
\* exist yet"): the scan goes on with the next category
AfterReaddirFailed(r) == Advance(r)

\* getNativeStorageStats() is invoked
GetNativeStorageStats ==
    /\ stats.pc = "idle"
    /\ stats' = IF ~isSupportedCapacitor
                THEN [NewScan EXCEPT !.pc = "done"]
                ELSE NewScan
    /\ UNCHANGED <<native, now, calls, fs, blobNext, blobLive, query,
                   catQuery, dels, listing, conv, upload>>

\* Filesystem.readdir({path: `aurora-files/${cat}`, directory: Data}) of
\* getNativeStorageStats settles: totalCount += result.files.length
StatsReaddirDone(ok) ==
    /\ stats.pc = "readdir"
    /\ \E files \in Listings(CategoryPath(categories[stats.cat])) :
          LET dir    == CategoryPath(categories[stats.cat])
              logged == Logged(stats, ScanCall("readdir", dir, ok,
                                               IF ok THEN files ELSE <<>>, 0))
          IN  stats' = IF ok
                       THEN Advance([logged EXCEPT !.totalCount = @ + Len(files),
                                                   !.entries = files])
                       ELSE AfterReaddirFailed(logged)
    /\ UNCHANGED <<native, now, calls, fs, blobNext, blobLive, query,
                   catQuery, dels, listing, conv, upload>>

\* Filesystem.stat of the next entry settles in getNativeStorageStats:
\* totalSize += stat.size, or the empty catch
StatsStatDone(ok) ==
    LET path   == EntryPath(categories[stats.cat], Head(stats.entries))
        size   == IF ok THEN ByteLength(fs[path]) ELSE 0
        logged == Logged(stats, ScanCall("stat", path, ok, <<>>, size))
    IN  /\ stats.pc = "stat"
        /\ ok => Exists(path)
        /\ stats' = Advance([logged EXCEPT !.totalSize = @ + size,
                                           !.entries = Tail(@)])
        /\ UNCHANGED <<native, now, calls, fs, blobNext, blobLive, query,
                       catQuery, dels, listing, conv, upload>>

(***************************************************************************)
(* getNativeStorageFiles.                                                  *)
(***************************************************************************)
\* getNativeStorageFiles() is invoked
GetNativeStorageFiles ==
    /\ listing.pc = "idle"
    /\ listing' = IF ~isSupportedCapacitor
                  THEN [NewScan EXCEPT !.pc = "done"]
                  ELSE NewScan
    /\ UNCHANGED <<native, now, calls, fs, blobNext, blobLive, query,
                   catQuery, dels, stats, conv, upload>>

\* Filesystem.readdir({path: `aurora-files/${cat}`, directory: Data}) of
\* getNativeStorageFiles settles
FilesReaddirDone(ok) ==
    /\ listing.pc = "readdir"
    /\ \E files \in Listings(CategoryPath(categories[listing.cat])) :
          LET dir    == CategoryPath(categories[listing.cat])
              logged == Logged(listing, ScanCall("readdir", dir, ok,
                                                 IF ok THEN files ELSE <<>>, 0))
          IN  listing' = IF ok
                         THEN Advance([logged EXCEPT !.entries = files])
                         ELSE AfterReaddirFailed(logged)
    /\ UNCHANGED <<native, now, calls, fs, blobNext, blobLive, query,
                   catQuery, dels, stats, conv, upload>>

\* the record pushed for an entry
FileRecord(name, cat, size) ==
    [name |-> name, path |-> EntryPath(cat, name), category |-> cat,
     size |-> size]

\* a faulty variant: an entry whose stat rejected is pushed with size 0
Pushed_always(r, ok, size) ==
    [r EXCEPT !.files = Append(@, FileRecord(Head(r.entries),
                                             categories[r.cat], size))]

\* files.push({name, path, category, size: stat.size}) after a resolved
\* stat; nothing in the catch of a rejected one
Pushed(r, ok, size) ==
    IF ok
    THEN [r EXCEPT !.files = Append(@, FileRecord(Head(r.entries),
                                                  categories[r.cat], size))]
    ELSE r

\* Filesystem.stat of the next entry settles in getNativeStorageFiles
FilesStatDone(ok) ==
    LET path   == EntryPath(categories[listing.cat], Head(listing.entries))
        size   == IF ok THEN ByteLength(fs[path]) ELSE 0
        logged == Logged(listing, ScanCall("stat", path, ok, <<>>, size))
    IN  /\ listing.pc = "stat"
        /\ ok => Exists(path)
        /\ listing' = Advance([Pushed(logged, ok, size) EXCEPT !.entries = Tail(@)])
        /\ UNCHANGED <<native, now, calls, fs, blobNext, blobLive, query,
                       catQuery, dels, stats, conv, upload>>

(***************************************************************************)
(* convertFileSrc.                                                         *)
(***************************************************************************)
\* strings handed to convertFileSrc, a scheme being one token: native file
\* and content URIs, absolute paths, object URLs, data URLs, and strings
\* that hold a scheme further in
ConvertUris ==
    UNION {StringsOf({"file://", "content://", "blob:", "data:", "/", "clip.mp4"}, n) :
              n \in 0..MaxUriTokens}

\* the address of the local server of the Capacitor web view
webviewServerUrl == <<"https://localhost">>

\* Capacitor.convertFileSrc(uri): an absolute path and a file:// URI are
\* served under /_capacitor_file_, a content:// URI (its "content:/"
\* replaced) under /_capacitor_content_, any other string is returned as is
CapacitorConvertFileSrc(uri) ==
    IF StartsWith(uri, <<"/">>)
    THEN webviewServerUrl \o <<"/_capacitor_file_">> \o uri
    ELSE IF StartsWith(uri, <<"file://">>)
    THEN webviewServerUrl \o <<"/_capacitor_file_">> \o Tail(uri)
    ELSE IF StartsWith(uri, <<"content://">>)
    THEN webviewServerUrl \o <<"/_capacitor_content_", "/">> \o Tail(uri)
    ELSE uri

\* a faulty variant: the conversion without the platform test
convertFileSrc_always(uri) == CapacitorConvertFileSrc(uri)

\* convertFileSrc(uri)
convertFileSrc(uri) ==
    IF ~isSupportedCapacitor THEN uri ELSE CapacitorConvertFileSrc(uri)

\* convertFileSrc(uri) is called
QueryConvert(uri) ==
    /\ conv' = Some([uri |-> uri, result |-> convertFileSrc(uri)])
    /\ UNCHANGED <<native, now, calls, fs, blobNext, blobLive, query,
                   catQuery, dels, stats, listing, upload>>

(***************************************************************************)
(* notify.uploadProgress: the handle {updateProgress, complete} and the    *)
(* toasts of the toaster, toast id -> the progress its render shows.       *)
(***************************************************************************)
\* the values handed to updateProgress, some above 100
ProgressValues == {10 * k : k \in 0..MaxProgressSteps}

\* a faulty variant: the update is made without the id of the toast
UpdatedProgress_noId(u, progress) ==
    [u EXCEPT !.currentProgress = Min(progress, 100),
              !.toastId = Some(u.issued + 1),
              !.issued = @ + 1,
              !.live = ((u.issued + 1) :> Min(progress, 100)) @@ u.live]

\* updateProgress(progress): currentProgress = Math.min(progress, 100);
\* toast.custom without an id creates a toast under a fresh id, toast.custom
\* with {id: toastId} updates the toast of that id (or shows it again)
UpdatedProgress(u, progress) ==
    IF u.toastId = Undefined
    THEN [u EXCEPT !.currentProgress = Min(progress, 100),
                   !.toastId = Some(u.issued + 1),
                   !.issued = @ + 1,
                   !.live = ((u.issued + 1) :> Min(progress, 100)) @@ u.live]
    ELSE [u EXCEPT !.currentProgress = Min(progress, 100),
                   !.live = (u.toastId[1] :> Min(progress, 100))]

\* updateProgress(progress) is called
UpdateProgress(progress) ==
    /\ upload.toastId = Undefined => upload.issued < MaxToasts
    /\ upload' = UpdatedProgress(upload, progress)
    /\ UNCHANGED <<native, now, calls, fs, blobNext, blobLive, query,
                   catQuery, dels, stats, listing, conv>>

\* complete(): toast.dismiss(toastId) when there is one; toastId = null
Complete ==
    /\ upload' = [upload EXCEPT
                     !.live = IF upload.toastId # Undefined
                              THEN [id \in (DOMAIN upload.live) \ {upload.toastId[1]}
                                       |-> upload.live[id]]
                              ELSE @,
                     !.toastId = Undefined]
    /\ UNCHANGED <<native, now, calls, fs, blobNext, blobLive, query,
                   catQuery, dels, stats, listing, conv>>

\* the user swipes a toast away
Swiped ==
    /\ \E id \in DOMAIN upload.live :
          upload' = [upload EXCEPT
                        !.live = [other \in (DOMAIN upload.live) \ {id}
                                     |-> upload.live[other]]]
    /\ UNCHANGED <<native, now, calls, fs, blobNext, blobLive, query,
                   catQuery, dels, stats, listing, conv>>

(***************************************************************************)
(* Specifications.                                                         *)
(***************************************************************************)
Init ==
    /\ native \in BOOLEAN
    /\ now = 0
    /\ calls = [c \in Calls |-> IdleCall]
    /\ fs = <<>>
    /\ blobNext = 0
    /\ blobLive = {}
    /\ query = Undefined
    /\ catQuery = Undefined
    /\ dels = <<>>
    /\ stats = IdleScan
    /\ listing = IdleScan
    /\ conv = Undefined
    /\ upload = NewUpload

\* the steps of the saves c of the set cs, on files of the set files
Steps(cs, files) ==
    \/ \E c \in cs, file \in files, randomString \in RandomStrings :
          SaveFile(c, file, randomString)
    \/ \E c \in cs, ok \in BOOLEAN : CopyDone(c, ok)
    \/ \E c \in cs, ok \in BOOLEAN : ReadDone(c, ok)
    \/ \E c \in cs, ok \in BOOLEAN : WriteFileDone(c, ok)
    \/ \E c \in cs, ok \in BOOLEAN : AppendFileDone(c, ok)
    \/ \E c \in cs : Yielded(c)
    \/ \E c \in cs, ok \in BOOLEAN : GetUriDone(c, ok)
    \/ Tick

Next == Steps(Calls, ConcurrentFiles)

\* MaxSaves saves, interleaved at their awaits
Spec == Init /\ [][Next]_vars

NextSave == Steps({1}, Files)

\* one save, of any file
SpecSave == Init /\ [][NextSave]_vars

\* the steps in which an awaited bridge call, read or timer of save c returns
Returns(c) ==
    \/ \E ok \in BOOLEAN : CopyDone(c, ok)
    \/ \E ok \in BOOLEAN : ReadDone(c, ok)
    \/ \E ok \in BOOLEAN : WriteFileDone(c, ok)
    \/ \E ok \in BOOLEAN : AppendFileDone(c, ok)
    \/ Yielded(c)
    \/ \E ok \in BOOLEAN : GetUriDone(c, ok)

\* one save, of any file, every awaited call and timer eventually returning
SpecSaveLive == Init /\ [][NextSave]_vars /\ WF_vars(Returns(1))

NextCategory == \E mimeType \in MimeTypes : QueryCategory(mimeType)

\* the category query alone
SpecCategory == Init /\ [][NextCategory]_vars

\* a later session: Directory.Data as earlier native saves left it, or the
\* object URLs that web saves of the session created
InitDelete ==
    /\ native \in BOOLEAN
    /\ now = 0
    /\ calls = [c \in Calls |-> IdleCall]
    /\ fs \in (IF native THEN Storages ELSE {<<>>})
    /\ blobNext \in (IF native THEN {0} ELSE {0, 1})
    /\ blobLive = {CreateObjectURL(n) : n \in 1..blobNext}
    /\ query = Undefined
    /\ catQuery = Undefined
    /\ dels = <<>>
    /\ stats = IdleScan
    /\ listing = IdleScan
    /\ conv = Undefined
    /\ upload = NewUpload

NextDelete ==
    \/ \E uri \in DeleteUris : DeleteFile(uri)
    \/ \E d \in DOMAIN dels, ok \in BOOLEAN : DeleteFileDone(d, ok)

\* calls of deleteFile, interleaved at their await
SpecDelete == InitDelete /\ [][NextDelete]_vars

\* a later session: Directory.Data as earlier saves left it
InitScan ==
    /\ native \in BOOLEAN
    /\ now = 0
    /\ calls = [c \in Calls |-> IdleCall]
    /\ fs \in (IF native THEN Storages ELSE {<<>>})
    /\ blobNext = 0
    /\ blobLive = {}
    /\ query = Undefined
    /\ catQuery = Undefined
    /\ dels = <<>>
    /\ stats = IdleScan
    /\ listing = IdleScan
    /\ conv = Undefined
    /\ upload = NewUpload

NextStats ==
    \/ GetNativeStorageStats
    \/ \E ok \in BOOLEAN : StatsReaddirDone(ok)
    \/ \E ok \in BOOLEAN : StatsStatDone(ok)

\* one scan of getNativeStorageStats
SpecStats == InitScan /\ [][NextStats]_vars

NextFiles ==
    \/ GetNativeStorageFiles
    \/ \E ok \in BOOLEAN : FilesReaddirDone(ok)
    \/ \E ok \in BOOLEAN : FilesStatDone(ok)

\* one scan of getNativeStorageFiles
SpecFiles == InitScan /\ [][NextFiles]_vars

NextConvert == \E uri \in ConvertUris : QueryConvert(uri)

\* the URL conversion alone
SpecConvert == Init /\ [][NextConvert]_vars

\* a caller that awaits getNativeStorageStats and then calls
\* getNativeStorageFiles
NextScans ==
    \/ NextStats
    \/ stats.pc = "done" /\ NextFiles

\* the two scans, one after the other, of one storage
SpecScans == InitScan /\ [][NextScans]_vars

\* the callers of the round trip: two saves of injected files (the copy
\* path) in one millisecond, a listing that is awaited while no save and
\* no delete is in flight and whose bridge calls succeed, and deletes of
\* the references the saves returned
RoundTripCalls == {1, 2}

Quiet ==
    /\ \A c \in RoundTripCalls : calls[c].pc \in {"idle", "done", "failed"}
    /\ \A d \in DOMAIN dels : dels[d].pc = "done"

NextRoundTrip ==
    \/ /\ listing.pc \in {"idle", "done"}
       /\ \/ \E c \in RoundTripCalls, file \in InjectedFiles,
                randomString \in RandomStrings : SaveFile(c, file, randomString)
          \/ \E c \in RoundTripCalls, ok \in BOOLEAN : CopyDone(c, ok)
          \/ \E c \in RoundTripCalls, ok \in BOOLEAN : GetUriDone(c, ok)
          \/ \E c \in RoundTripCalls :
                /\ calls[c].pc = "done"
                /\ DeleteFile(calls[c].result[1].uri)
          \/ \E d \in DOMAIN dels, ok \in BOOLEAN : DeleteFileDone(d, ok)
    \/ /\ Quiet
       /\ NextFiles
       /\ \A i \in DOMAIN listing'.log : listing'.log[i].ok

\* saves, a listing and deletes of what was saved
SpecRoundTrip == Init /\ [][NextRoundTrip]_vars

NextUpload ==
    \/ \E progress \in ProgressValues : UpdateProgress(progress)
    \/ Complete
    \/ Swiped

\* one upload handle
SpecUpload == Init /\ [][NextUpload]_vars

NextTier == \E fileSize \in TierSizes : QueryTier(fileSize)

\* the tier query alone
SpecTier == Init /\ [][NextTier]_vars

(***************************************************************************)
(* What a save has done, read off its log of bridge calls.                 *)
(***************************************************************************)
IsCopy(e) == e.op = "copy"

IsChunkWrite(e) == e.op \in {"writeFile", "appendFile"}

Copies(r) == SelectSeq(r.log, IsCopy)

ChunkWrites(r) == SelectSeq(r.log, IsChunkWrite)

\* the decoded payloads of a sequence of bridge calls, concatenated
RECURSIVE Payload(_)
Payload(entries) ==
    IF entries = <<>> THEN <<>>
    ELSE Decode(Head(entries).data) \o Payload(Tail(entries))

\* a sequence of segments with every two adjoining runs of one source merged
RECURSIVE Joined(_)
Joined(segs) ==
    IF Len(segs) <= 1 THEN segs
    ELSE LET h    == Head(segs)
             rest == Joined(Tail(segs))
         IN  IF h.src = rest[1].src /\ h.hi = rest[1].lo
             THEN <<Segment(h.src, h.lo, rest[1].hi)>> \o Tail(rest)
             ELSE <<h>> \o rest

\* the whole byte sequence of a file
Bytes(file) == <<Segment(file.bytes, 0, file.size)>>

Invoked(r) == r.pc # "idle"

\* the save takes the chunked path: native, no source locator
Chunked(r) == Invoked(r) /\ native /\ ~Truthy(SourceUri(r.file))

\* the save takes the copy path: native, a source locator
Copying(r) == Invoked(r) /\ native /\ Truthy(SourceUri(r.file))

\* the chunk loop of the save has ended normally
LoopEnded(r) ==
    \/ r.pc \in {"getUri", "done"}
    \/ r.pc = "failed" /\ r.error[1].op = "getUri"

InFlight(r) == r.pc \notin {"idle", "done", "failed"}

C2_DocumentedTierPolicy ==
    \A i \in DOMAIN query :
        LET q == query[i]
        IN  /\ q.fileSize < DocumentedThreshold => ~q.result
            /\ (native /\ q.fileSize >= DocumentedThreshold) => q.result

(***************************************************************************)
(* C3: where the platform is not native, saveFile issues no bridge call,   *)
(* allocates one object URL per save, and returns that URL with the file's *)
(* size and type.                                                          *)
(***************************************************************************)
C3_WebSaveNoBridge ==
    ~native =>
        /\ fs = <<>>
        /\ blobNext = Cardinality({c \in Calls : Invoked(calls[c])})
        /\ Cardinality(blobLive) = blobNext
        /\ \A c \in Calls :
              LET r == calls[c]
              IN  /\ r.log = <<>>
                  /\ r.pc \in {"idle", "done"}
                  /\ r.pc = "done" =>
                        /\ r.result # Undefined
                        /\ r.result[1].uri \in blobLive
                        /\ StartsWith(r.result[1].uri, <<"blob:">>)
                        /\ r.result[1].size = r.file.size
                        /\ r.result[1].mimeType = r.file.type

C3_Witness ==
    /\ ~native
    /\ calls[1].pc = "done"
    /\ calls[2].pc = "done"
    /\ calls[1].file.size = chunkSize + 1
    /\ calls[1].result[1].uri = CreateObjectURL(1)
    /\ calls[2].result[1].uri = CreateObjectURL(2)
    /\ blobLive = {CreateObjectURL(1), CreateObjectURL(2)}

(***************************************************************************)
(* C4: on the native platform, for a file with a source locator whose      *)
(* first copy succeeds, the save issues that one copy (from the locator to *)
(* the destination path) and no writeFile or appendFile.                   *)
(***************************************************************************)
C4_SingleCopyNoChunks ==
    \A c \in Calls :
        LET r == calls[c]
        IN  (Copying(r) /\ \A i \in DOMAIN r.log : IsCopy(r.log[i]) => r.log[i].ok) =>
                \/ r.pc = "copy" /\ r.attempt = 1 /\ r.log = <<>>
                \/ /\ r.pc \in {"getUri", "done", "failed"}
                   /\ Len(Copies(r)) = 1
                   /\ IsCopy(r.log[1])
                   /\ r.log[1].from = SourceUri(r.file)
                   /\ r.log[1].path = r.path
                   /\ ChunkWrites(r) = <<>>

C4_Witness ==
    /\ Copying(calls[1])
    /\ calls[1].pc = "done"
    /\ Len(calls[1].log) = 2
    /\ calls[1].log[1].ok
    /\ fs[calls[1].path] = Bytes(calls[1].file)

(***************************************************************************)
(* C5: on the copy path a failed first copy is followed by exactly one     *)
(* more copy, the same but without the source directory; when that fails   *)
(* too the save is rejected with its error; no writeFile or appendFile and *)
(* no third copy is ever issued.                                           *)
(***************************************************************************)
C5_OneCopyRetry ==
    \A c \in Calls :
        LET r == calls[c]
        IN  Copying(r) =>
                /\ ChunkWrites(r) = <<>>
                /\ Len(Copies(r)) <= 2
                /\ Len(Copies(r)) + (IF r.pc = "copy" THEN 1 ELSE 0) <= 2
                /\ (r.log # <<>> /\ ~r.log[1].ok) =>
                      /\ r.log[1].fromDirectory = Some("EXTERNAL")
                      /\ \/ r.pc = "copy" /\ r.attempt = 2 /\ Len(r.log) = 1
                         \/ /\ Len(r.log) >= 2
                            /\ IsCopy(r.log[2])
                            /\ r.log[2].fromDirectory = Undefined
                            /\ r.log[2].from = r.log[1].from
                            /\ r.log[2].path = r.log[1].path
                /\ (Len(r.log) >= 2 /\ ~r.log[1].ok /\ ~r.log[2].ok) =>
                      /\ r.pc = "failed"
                      /\ r.error = Some(BridgeError("copy", 2))
                      /\ r.result = Undefined
                      /\ Len(r.log) = 2

C5_Witness ==
    /\ Copying(calls[1])
    /\ calls[1].pc = "failed"
    /\ Len(calls[1].log) = 2
    /\ ~calls[1].log[1].ok
    /\ ~calls[1].log[2].ok

(***************************************************************************)
(* C6: a chunked save of a file of N * 1 MiB + r bytes, 0 < r < 1 MiB,     *)
(* whose loop has ended has issued exactly N + 1 chunk writes, the first a *)
(* writeFile and the other N appendFile, and their payloads, decoded and   *)
(* concatenated in call order, are the bytes of the file.                  *)
(***************************************************************************)
C6_ChunkCountAndOrder ==
    \A c \in Calls :
        LET r == calls[c]
            w == ChunkWrites(r)
        IN  (Chunked(r) /\ LoopEnded(r) /\ r.file.size % 1048576 # 0) =>
                /\ Len(w) = (r.file.size \div 1048576) + 1
                /\ w[1].op = "writeFile"
                /\ \A i \in 2..Len(w) : w[i].op = "appendFile"
                /\ \A i \in 1..Len(w) : w[i].ok /\ w[i].data.defined
                /\ Joined(Payload(w)) = Bytes(r.file)

C6_Witness ==
    /\ Chunked(calls[1])
    /\ calls[1].pc = "done"
    /\ calls[1].file.size = 2 * 1048576 + 1
    /\ Len(ChunkWrites(calls[1])) = 3

(***************************************************************************)
(* C7: a chunked save of a file of exactly N * 1 MiB bytes, N >= 1, whose  *)
(* loop has ended has issued exactly N chunk writes, one writeFile and     *)
(* then N - 1 appendFile, each of 1 MiB (no trailing empty chunk); the     *)
(* reference it returns carries the size of the file.                      *)
(***************************************************************************)
C7_ExactMultiple ==
    \A c \in Calls :
        LET r == calls[c]
            w == ChunkWrites(r)
        IN  (Chunked(r) /\ LoopEnded(r) /\ r.file.size >= 1048576
                /\ r.file.size % 1048576 = 0) =>
                /\ Len(w) = r.file.size \div 1048576
                /\ w[1].op = "writeFile"
                /\ \A i \in 2..Len(w) : w[i].op = "appendFile"
                /\ \A i \in 1..Len(w) :
                      /\ w[i].data.defined
                      /\ Len(w[i].data.bytes) = 1
                      /\ w[i].data.bytes[1].hi - w[i].data.bytes[1].lo = 1048576
                /\ r.pc = "done" => r.result[1].size = r.file.size

C7_Witness ==
    /\ Chunked(calls[1])
    /\ calls[1].pc = "done"
    /\ calls[1].file.size = 3 * 1024 * 1024
    /\ Len(ChunkWrites(calls[1])) = 3
    /\ calls[1].result[1].size = 3145728

(***************************************************************************)
(* C8: a failed save never reports success: when a bridge call of a native *)
(* save fails (writeFile, an appendFile, the second copy after the first,  *)
(* getUri), that call is the last the save issues, the save is rejected    *)
(* with the error of that call and returns no reference.                   *)
(***************************************************************************)
C8_FailedSaveRejects ==
    \A c \in Calls :
        LET r == calls[c]
            \* the first copy alone may fail without failing the save
            retried(i) == i = 1 /\ IsCopy(r.log[1]) /\ r.log[1].fromDirectory # Undefined
        IN  /\ r.pc = "failed" => r.result = Undefined /\ r.error # Undefined
            /\ r.pc = "done" => r.result # Undefined /\ r.error = Undefined
            /\ \A i \in DOMAIN r.log :
                  (~r.log[i].ok /\ ~retried(i)) =>
                      /\ r.pc = "failed"
                      /\ i = Len(r.log)
                      /\ r.error = Some(BridgeError(r.log[i].op, i))
                      /\ r.result = Undefined

C8_Witness ==
    /\ calls[1].pc = "failed"
    /\ Len(calls[1].log) = 3
    /\ calls[1].log[2].op = "appendFile"
    /\ calls[1].log[2].ok
    /\ calls[1].log[3].op = "appendFile"
    /\ ~calls[1].log[3].ok

(***************************************************************************)
(* C9: a writeFile or copy of a save never targets a path at which a file  *)
(* already exists (a file another save has written): saveFile never        *)
(* overwrites a file.                                                      *)
(***************************************************************************)
C9_NeverOverwrites ==
    \A c \in Calls :
        calls[c].pc \in {"copy", "writeFile"} => ~Exists(calls[c].path)

(***************************************************************************)
(* C10: two saveFile calls in flight at the same time never have the same  *)
(* destination path.                                                       *)
(***************************************************************************)
C10_DistinctPaths ==
    \A c, d \in Calls :
        (c # d /\ native /\ InFlight(calls[c]) /\ InFlight(calls[d])) =>
            calls[c].path # calls[d].path

(***************************************************************************)
(* C11: the destination path of every successful native save has the shape *)
(* aurora-files/<category>/<digits>_<6 characters of [a-z0-9]>.<ext>, with *)
(* <category> one of videos, audio, images, documents and <ext> the        *)
(* extension of the original name, or "bin" when the name has none.        *)
(***************************************************************************)
DigitChars == {"0", "1", "2", "3", "4", "5", "6", "7", "8", "9"}

Base36Chars ==
    DigitChars \cup
    {"a", "b", "c", "d", "e", "f", "g", "h", "i", "j", "k", "l", "m",
     "n", "o", "p", "q", "r", "s", "t", "u", "v", "w", "x", "y", "z"}

Categories == {str_videos, str_audios, str_images, str_documents}

\* the extension of a file name: what follows its last dot, "bin" when
\* there is no dot or nothing follows it
OriginalExtension(name) ==
    LET parts == Split(name, ".")
    IN  IF Len(parts) >= 2 /\ Pop(parts) # <<>> THEN Pop(parts) ELSE str_bin

PathShape(path, name) ==
    LET n == Len(path)
    IN  /\ n >= 4
        /\ \E cat \in Categories :
              SubSeq(path, 1, 4) = str_root \o <<"/">> \o cat \o <<"/">>
        /\ \E k \in 6..n :
              /\ \A i \in 5..(k - 1) : path[i] \in DigitChars
              /\ path[k] = "_"
              /\ n >= k + 8
              /\ \A i \in (k + 1)..(k + 6) : path[i] \in Base36Chars
              /\ path[k + 7] = "."
              /\ SubSeq(path, k + 8, n) = OriginalExtension(name)

C11_PathShape ==
    \A c \in Calls :
        (native /\ calls[c].pc = "done") =>
            PathShape(calls[c].path, calls[c].file.name)

(***************************************************************************)
(* C12: the category is a function of the MIME prefix alone: video/ gives  *)
(* videos, audio/ gives audio, image/ gives images, every other string     *)
(* (the empty one included) gives documents; the result is always one of   *)
(* the four categories.                                                    *)
(***************************************************************************)
C12_CategoryOfPrefix ==
    \A i \in DOMAIN catQuery :
        LET m      == catQuery[i].mimeType
            prefix == SubSeq(m, 1, Min(2, Len(m)))
            result == catQuery[i].result
        IN  /\ result \in {<<"videos">>, <<"audio">>, <<"images">>, <<"documents">>}
            /\ result = <<"videos">> <=> prefix = <<"video", "/">>
            /\ result = <<"audio">>  <=> prefix = <<"audio", "/">>
            /\ result = <<"images">> <=> prefix = <<"image", "/">>
            /\ m = <<>> => result = <<"documents">>

C12_Witness ==
    /\ catQuery # Undefined
    /\ catQuery[1].mimeType = <<"audio", "/", "mp4">>
    /\ catQuery[1].result = <<"audio">>

(***************************************************************************)
(* C13: on the native platform saveFile takes a native strategy whatever   *)
(* the size: a save of a file below the threshold, for which               *)
(* shouldUseNativeStorage is false, creates no object URL, goes through    *)
(* the copy or the chunk loop, and when it returns, its reference is a     *)
(* native URI and a non-empty file is stored at the destination path.      *)
(***************************************************************************)
NativeStrategy(r) ==
    /\ r.path # IdleCall.path
    /\ r.pc \in {"copy", "read", "writeFile", "appendFile", "yield",
                 "getUri", "done", "failed"}
    /\ IF Truthy(SourceUri(r.file))
       THEN r.pc \in {"getUri", "done"} => Len(Copies(r)) >= 1
       ELSE r.pc \in {"getUri", "done"} =>
                Len(ChunkWrites(r)) >= (IF r.file.size > 0 THEN 1 ELSE 0)

ChunksOf(file) == (file.size + chunkSize - 1) \div chunkSize

\* the bridge calls before the i-th of a save completed its copy or its
\* chunk writes
WriteCompleted(r, i) ==
    LET before == SubSeq(r.log, 1, i - 1)
    IN  IF Truthy(SourceUri(r.file))
        THEN /\ i >= 2
             /\ IsCopy(before[i - 1]) /\ before[i - 1].ok
             /\ ChunkWrites(r) = <<>>
        ELSE /\ \A k \in DOMAIN before : IsChunkWrite(before[k]) /\ before[k].ok
             /\ Len(before) = ChunksOf(r.file)

C14_UriAfterWrite ==
    \A c \in Calls :
        LET r == calls[c]
        IN  (native /\ Invoked(r)) =>
                /\ \A i \in DOMAIN r.log :
                      r.log[i].op = "getUri" =>
                          /\ i = Len(r.log)
                          /\ r.log[i].path = r.path
                          /\ WriteCompleted(r, i)
                /\ r.pc = "getUri" => WriteCompleted(r, Len(r.log) + 1)
                /\ r.pc = "done" =>
                      /\ r.log # <<>>
                      /\ r.log[Len(r.log)].op = "getUri" /\ r.log[Len(r.log)].ok
                      /\ r.result[1].uri = GetUri(r.path)

C14_Witness ==
    \E c \in Calls :
        /\ native /\ calls[c].pc = "done"
        /\ calls[c].file.size = 2 * chunkSize + 1
        /\ Len(calls[c].log) = 4
        /\ calls[c].log[4].op = "getUri"
        /\ calls[c].result[1].uri = GetUri(calls[c].path)

(***************************************************************************)
(* C15: deleteFile never throws and is idempotent: no call of it, on       *)
(* either platform, ends with an error for its caller, also not the second *)
(* call on a reference already deleted or a call on an unknown reference,  *)
(* whose bridge delete fails because there is no such file; and of the     *)
(* calls on one reference at most one removes a file.                      *)
(***************************************************************************)
Removing(r) == \E i \in DOMAIN r.log : r.log[i].ok

C15_DeleteIdempotent ==
    /\ \A d \in DOMAIN dels : dels[d].error = Undefined
    /\ \A d, e \in DOMAIN dels :
          (d < e /\ dels[d].uri = dels[e].uri /\ Removing(dels[d])) =>
              ~Removing(dels[e])

C15_Witness ==
    /\ native
    /\ Len(dels) >= 2
    /\ dels[1].uri = dels[2].uri
    /\ dels[1].pc = "done" /\ Removing(dels[1])
    /\ dels[2].pc = "done" /\ Len(dels[2].log) = 1 /\ ~dels[2].log[1].ok
    /\ dels[2].error = Undefined

(***************************************************************************)
(* C16: on the native platform a bridge delete is issued only for a URI    *)
(* that refers to a file under aurora-files/ of Directory.Data, the path   *)
(* handed to the bridge denotes a location inside aurora-files/, and a URI *)
(* that does not match the managed subtree causes no bridge call.          *)
(***************************************************************************)
\* a reference to a file of the managed subtree: the URI getUri gives for a
\* path under aurora-files/, or such a path itself
Managed(uri) ==
    LET root == str_root \o <<"/">>
    IN  \/ Len(uri) > Len(GetUri(root)) /\ StartsWith(uri, GetUri(root))
        \/ Len(uri) > Len(root) /\ StartsWith(uri, root)

\* the path denotes a file below aurora-files/
Inside(path) ==
    LET segments == ResolveFrom(Split(path, "/"), <<>>)
    IN  Len(segments) >= 2 /\ segments[1] = str_root

C16_DeleteStaysInside ==
    native =>
        \A d \in DOMAIN dels :
            LET r == dels[d]
            IN  /\ (r.pc = "deleteFile" \/ r.log # <<>>) =>
                      Managed(r.uri) /\ Inside(r.path[1])
                /\ ~Managed(r.uri) => r.log = <<>> /\ r.pc = "done"

(***************************************************************************)
(* C17: where Capacitor is absent deleteFile revokes the handle if and     *)
(* only if it begins with blob:, changes nothing for any other input, and  *)
(* never issues a bridge call.                                             *)
(***************************************************************************)
C17_WebDeleteRevokesBlobOnly ==
    ~native =>
        /\ \A d \in DOMAIN dels :
              /\ dels[d].pc = "done"
              /\ dels[d].log = <<>>
              /\ dels[d].revoked <=> dels[d].uri[1] = "blob:"
        /\ blobLive = {CreateObjectURL(n) : n \in 1..blobNext}
                          \ {dels[d].uri : d \in {e \in DOMAIN dels :
                                                     dels[e].uri[1] = "blob:"}}
        /\ fs = <<>>

C17_Witness ==
    /\ ~native
    /\ Len(dels) = 2
    /\ dels[1].uri = CreateObjectURL(1) /\ dels[1].revoked
    /\ dels[2].uri[1] # "blob:" /\ ~dels[2].revoked
    /\ blobNext = 1 /\ blobLive = {}

(***************************************************************************)
(* C18: a failed delete is absorbed and not retried: a call of deleteFile  *)
(* issues one bridge delete at most, and when that call failed, deleteFile *)
(* has returned normally, the failure logged, with no further bridge call. *)
(***************************************************************************)
C18_FailedDeleteAbsorbed ==
    \A d \in DOMAIN dels :
        LET r == dels[d]
        IN  /\ Len(r.log) <= 1
            /\ (r.log # <<>> /\ ~r.log[1].ok) =>
                  /\ r.pc = "done"
                  /\ r.error = Undefined
                  /\ r.consoleErrors = 1

C18_Witness ==
    \E d \in DOMAIN dels :
        /\ native
        /\ dels[d].pc = "done"
        /\ Len(dels[d].log) = 1 /\ ~dels[d].log[1].ok
        /\ Exists(dels[d].log[1].path)
        /\ dels[d].error = Undefined

(***************************************************************************)
(* C19: when exactly one of the K entries listed in the category           *)
(* directories fails to stat during a scan, getNativeStorageStats returns  *)
(* count = K - 1 and size = the sum of the sizes of the other K - 1, and   *)
(* throws nothing.                                                         *)
(***************************************************************************)
IsReaddir(e) == e.op = "readdir"

IsStat(e) == e.op = "stat"

IsFailedStat(e) == e.op = "stat" /\ ~e.ok

\* the sum of the sizes that the stat calls of a log returned
RECURSIVE StatSizes(_)
StatSizes(log) ==
    IF log = <<>> THEN 0
    ELSE (IF IsStat(Head(log)) /\ Head(log).ok THEN Head(log).size ELSE 0)
             + StatSizes(Tail(log))

\* the number of entries that the readdir calls of a log listed
RECURSIVE Listed(_)
Listed(log) ==
    IF log = <<>> THEN 0
    ELSE Len(Head(log).files) + Listed(Tail(log))

C19_OneFailedStat ==
    (/\ native /\ stats.pc = "done"
     /\ Len(SelectSeq(stats.log, IsFailedStat)) = 1) =>
        /\ stats.totalCount = Listed(stats.log) - 1
        /\ stats.totalSize = StatSizes(stats.log)
        /\ stats.error = Undefined

(***************************************************************************)
(* C20: getNativeStorageFiles returns no entry whose stat failed: the      *)
(* records are, in order, those of the entries whose stat succeeded in     *)
(* this scan, each with the size that stat returned, the path              *)
(* aurora-files/<category>/<name> and its category; an entry whose stat    *)
(* failed is skipped and the scan goes on through the remaining entries    *)
(* and all four categories.                                                *)
(***************************************************************************)
IsResolvedStat(e) == e.op = "stat" /\ e.ok

C20_NoFailedEntryListed ==
    (native /\ listing.pc # "idle") =>
        LET resolved == SelectSeq(listing.log, IsResolvedStat)
            failed   == SelectSeq(listing.log, IsFailedStat)
        IN  /\ Len(listing.files) = Len(resolved)
            /\ \A i \in DOMAIN listing.files :
                  LET f == listing.files[i]
                  IN  /\ f.path = resolved[i].path
                      /\ f.size = resolved[i].size
                      /\ f.size = ByteLength(fs[f.path])
                      /\ f.path = <<"aurora-files", "/">> \o f.category
                                      \o <<"/">> \o f.name
                      /\ f.category \in {<<"videos">>, <<"audio">>,
                                         <<"images">>, <<"documents">>}
            /\ \A i \in DOMAIN failed, j \in DOMAIN listing.files :
                  failed[i].path # listing.files[j].path
            /\ listing.pc = "done" =>
                  /\ Len(SelectSeq(listing.log, IsReaddir)) = 4
                  /\ Len(SelectSeq(listing.log, IsStat)) = Listed(listing.log)
                  /\ listing.error = Undefined

C20_Witness ==
    /\ native /\ listing.pc = "done"
    /\ Len(SelectSeq(listing.log, IsFailedStat)) = 1
    /\ Len(listing.files) = 2
    /\ IsFailedStat(listing.log[2])
    /\ listing.files[1].category = <<"videos">>
    /\ listing.files[2].category = <<"images">>

(***************************************************************************)
(* C21: a category directory whose readdir fails counts as zero entries    *)
(* and is no error: whatever subset of the four readdir calls fails,       *)
(* getNativeStorageStats calls readdir on all four categories, returns     *)
(* without throwing the number of entries of the categories it could read  *)
(* (and, when every stat succeeded, the sum of their sizes), and returns   *)
(* {count: 0, size: 0} when the root is empty or no category can be read.  *)
(***************************************************************************)
\* the categories whose readdir succeeded in a scan
ReadCategories(r) ==
    {cat \in {<<"videos">>, <<"audio">>, <<"images">>, <<"documents">>} :
        \E i \in DOMAIN r.log :
            /\ IsReaddir(r.log[i]) /\ r.log[i].ok
            /\ r.log[i].path = <<"aurora-files", "/">> \o cat}

\* the stored files of a set of categories
StoredIn(cats) ==
    {path \in DOMAIN fs :
        \E cat \in cats : StartsWith(path, <<"aurora-files", "/">> \o cat \o <<"/">>)}

RECURSIVE SizeOf(_)
SizeOf(paths) ==
    IF paths = {} THEN 0
    ELSE LET path == CHOOSE q \in paths : TRUE
         IN  ByteLength(fs[path]) + SizeOf(paths \ {path})

C21_MissingDirectoryIsEmpty ==
    (native /\ stats.pc = "done") =>
        LET read == StoredIn(ReadCategories(stats))
        IN  /\ stats.error = Undefined
            /\ Len(SelectSeq(stats.log, IsReaddir)) = 4
            /\ stats.totalCount = Cardinality(read)
            /\ SelectSeq(stats.log, IsFailedStat) = <<>> =>
                  stats.totalSize = SizeOf(read)
            /\ (fs = <<>> \/ ReadCategories(stats) = {}) =>
                  stats.totalCount = 0 /\ stats.totalSize = 0

C21_Witness ==
    /\ native /\ stats.pc = "done"
    /\ ~stats.log[1].ok
    /\ StoredIn({<<"videos">>}) # {}
    /\ ReadCategories(stats) = {<<"audio">>, <<"documents">>}
    /\ stats.totalCount = 1
    /\ stats.totalSize = 2 * chunkSize + 1

(***************************************************************************)
(* C22: where Capacitor is absent convertFileSrc is the identity: it       *)
(* returns every string handed to it unchanged.                            *)
(***************************************************************************)
C22_ConvertIdentityOnWeb ==
    (~native /\ conv # Undefined) => conv[1].result = conv[1].uri

C22_Witness ==
    /\ ~native
    /\ conv # Undefined
    /\ conv[1].uri = <<"file://", "/", "clip.mp4">>
    /\ conv[1].result = <<"file://", "/", "clip.mp4">>

(***************************************************************************)
(* C23: when chunked saves to distinct destination paths interleave, the   *)
(* chunk writes of each save are issued in increasing offset order, the    *)
(* first with writeFile and the others with appendFile, the one write      *)
(* outstanding being that of the next offset, and the destination file     *)
(* holds the bytes written so far, in order: the bytes of the source file  *)
(* when the save has returned.                                             *)
(***************************************************************************)
\* no other save was given the destination path of save c
OwnPath(c) ==
    \A d \in Calls \ {c} : Invoked(calls[d]) => calls[d].path # calls[c].path

C23_PerCallChunkOrder ==
    \A c \in Calls :
        LET r == calls[c]
            w == ChunkWrites(r)
        IN  (Chunked(r) /\ OwnPath(c)) =>
                /\ \A i \in DOMAIN w :
                      /\ w[i].op = (IF i = 1 THEN "writeFile" ELSE "appendFile")
                      /\ w[i].data.bytes =
                            <<[src |-> r.file.bytes,
                               lo  |-> (i - 1) * 1048576,
                               hi  |-> Min(i * 1048576, r.file.size)]>>
                      /\ i < Len(w) => w[i].ok
                /\ r.pc \in {"writeFile", "appendFile"} =>
                      /\ r.offset = Len(w) * 1048576
                      /\ r.base64.bytes =
                            <<[src |-> r.file.bytes,
                               lo  |-> r.offset,
                               hi  |-> Min(r.offset + 1048576, r.file.size)]>>
                /\ (w # <<>> /\ w[1].ok) =>
                      /\ Exists(r.path)
                      /\ Joined(fs[r.path]) =
                            Joined(Payload(SelectSeq(w, LAMBDA e : e.ok)))
                /\ (r.pc = "done" /\ r.file.size > 0) =>
                      Joined(fs[r.path]) = Bytes(r.file)

C23_Witness ==
    /\ Chunked(calls[1]) /\ Chunked(calls[2])
    /\ calls[1].path # calls[2].path
    /\ calls[1].pc = "appendFile" /\ calls[2].pc = "appendFile"
    /\ Len(ChunkWrites(calls[1])) = 1 /\ Len(ChunkWrites(calls[2])) = 1
    /\ Joined(fs[calls[1].path]) = <<[src |-> "clip", lo |-> 0, hi |-> 1048576]>>
    /\ Joined(fs[calls[2].path]) = <<[src |-> "clip", lo |-> 0, hi |-> 1048576]>>

(***************************************************************************)
(* C24: between two consecutive chunk writes of a chunked save the save is *)
(* suspended in its zero-delay timer, where steps of other saves can run:  *)
(* a chunk write that succeeded is followed by the yield, a chunk is read  *)
(* only at the start of the save or after a yield, and a chunk write is    *)
(* issued only after its chunk was read.                                   *)
(***************************************************************************)
C24_YieldBetweenChunks ==
    [][\A c \in Calls :
          calls'[c].pc # calls[c].pc =>
              LET r == calls[c]
                  q == calls'[c]
              IN  /\ r.pc \in {"writeFile", "appendFile"} =>
                        \/ q.pc = "yield" /\ q.log[Len(q.log)].ok
                        \/ q.pc = "failed" /\ ~q.log[Len(q.log)].ok
                  /\ q.pc \in {"writeFile", "appendFile"} => r.pc = "read"
                  /\ q.pc = "read" =>
                        \/ r.pc = "idle" /\ q.log = <<>>
                        \/ r.pc = "yield"
                  /\ r.pc = "yield" =>
                        q.pc \in {"read", "getUri"} /\ q.log = r.log]_vars

C24_Witness ==
    /\ Chunked(calls[1])
    /\ calls[1].pc = "yield"
    /\ Len(ChunkWrites(calls[1])) = 1
    /\ calls[1].offset < calls[1].file.size
    /\ InFlight(calls[2])

(***************************************************************************)
(* C25: a writeFile or appendFile that fails ends the chunked save at      *)
(* once: the failed write is the last bridge call of the save (no further  *)
(* chunk write, no getUri, no delete), the save rejects with that failure, *)
(* and what the earlier chunk writes stored stays at the destination path. *)
(***************************************************************************)
IsFailedChunkWrite(e) == IsChunkWrite(e) /\ ~e.ok

IsResolvedChunkWrite(e) == IsChunkWrite(e) /\ e.ok

C25_FailedChunkAborts ==
    \A c \in Calls :
        LET r == calls[c]
            n == Len(r.log)
        IN  (Chunked(r) /\ SelectSeq(r.log, IsFailedChunkWrite) # <<>>) =>
                /\ IsFailedChunkWrite(r.log[n])
                /\ \A i \in 1..(n - 1) : IsResolvedChunkWrite(r.log[i])
                /\ r.pc = "failed"
                /\ r.result = Undefined
                /\ r.error = <<[op |-> r.log[n].op, n |-> n]>>
                /\ n >= 2 =>
                      /\ Exists(r.path)
                      /\ Joined(fs[r.path]) =
                            <<[src |-> r.file.bytes, lo |-> 0,
                               hi |-> (n - 1) * 1048576]>>
                /\ n = 1 => ~Exists(r.path)

C25_Witness ==
    \E c \in Calls :
        /\ Chunked(calls[c])
        /\ calls[c].pc = "failed"
        /\ calls[c].file.size = 2 * chunkSize + 1
        /\ Len(calls[c].log) = 2
        /\ calls[c].log[2].op = "appendFile" /\ ~calls[c].log[2].ok
        /\ Joined(fs[calls[c].path]) = <<Segment("clip", 0, chunkSize)>>

(***************************************************************************)
(* C26: a chunked save of a file of S bytes, every awaited call and timer  *)
(* returning, eventually returns a reference or rejects; the offset is a   *)
(* multiple of 1 MiB that each chunk write advances, and the save never    *)
(* issues more than ceil(S / 1 MiB) chunk writes.                          *)
(***************************************************************************)
C26_ChunkedSaveTerminates ==
    /\ [](\A c \in Calls :
             Chunked(calls[c]) =>
                 /\ Len(ChunkWrites(calls[c]))
                        <= (calls[c].file.size + 1048575) \div 1048576
                 /\ calls[c].offset
                        = 1048576 * Len(SelectSeq(calls[c].log, IsResolvedChunkWrite)))
    /\ Chunked(calls[1]) ~> calls[1].pc \in {"done", "failed"}

C26_Witness ==
    /\ Chunked(calls[1])
    /\ calls[1].pc = "done"
    /\ calls[1].file.size = MaxChunks * chunkSize
    /\ Len(ChunkWrites(calls[1])) = MaxChunks

(***************************************************************************)
(* C27: every native save that returns a reference has left a file at the  *)
(* destination path: a copy to that path or a writeFile of it succeeded    *)
(* before, whatever the size of the file, 0 included.                      *)
(***************************************************************************)
C27_SavedFileExists ==
    \A c \in Calls :
        LET r == calls[c]
        IN  (native /\ r.pc = "done") =>
                /\ \E i \in DOMAIN r.log :
                      /\ r.log[i].op \in {"copy", "writeFile"}
                      /\ r.log[i].ok
                      /\ r.log[i].path = r.path
                /\ Exists(r.path)

(***************************************************************************)
(* C28: on an unchanging storage, with the same outcomes of the bridge     *)
(* calls in both scans (entries that fail to stat included), the count of  *)
(* getNativeStorageStats is the number of records of getNativeStorageFiles *)
(* and its size is the sum of the sizes of those records.                  *)
(***************************************************************************)
RECURSIVE RecordSizes(_)
RecordSizes(files) ==
    IF files = <<>> THEN 0
    ELSE Head(files).size + RecordSizes(Tail(files))

C28_StatsMatchFiles ==
    (/\ native
     /\ stats.pc = "done" /\ listing.pc = "done"
     /\ stats.log = listing.log) =>
        /\ stats.totalCount = Len(listing.files)
        /\ stats.totalSize = RecordSizes(listing.files)

(***************************************************************************)
(* C29: the round trip on the native platform.  A file a save returned a   *)
(* reference for stays stored, with its bytes, until deleteFile is called  *)
(* with that reference, whatever is saved or deleted besides; deleteFile   *)
(* with that reference hands the bridge the destination path of the save   *)
(* and no other, and once the delete succeeded the file is gone; a listing *)
(* whose bridge calls all succeed holds, for every save whose file is      *)
(* stored, a record with its path and MIME category, and no record of a    *)
(* deleted file.                                                           *)
(***************************************************************************)
\* deleteFile was called with the reference save c returned
DeleteCalled(c) ==
    \E d \in DOMAIN dels : dels[d].uri = calls[c].result[1].uri

C29_RoundTripKept ==
    \A c \in DOMAIN calls :
        (native /\ calls[c].pc = "done") =>
            /\ ~DeleteCalled(c) =>
                  /\ Exists(calls[c].path)
                  /\ fs[calls[c].path] = Bytes(calls[c].file)
            /\ \A d \in DOMAIN dels :
                  dels[d].uri = calls[c].result[1].uri =>
                      /\ dels[d].path = <<calls[c].path>>
                      /\ \A i \in DOMAIN dels[d].log :
                            dels[d].log[i].path = calls[c].path
                      /\ (dels[d].pc = "done" /\ Removing(dels[d])) =>
                            ~Exists(calls[c].path)

C29_RoundTripListed ==
    (/\ native
     /\ listing.pc # "done" /\ listing'.pc = "done"
     /\ \A i \in DOMAIN listing'.log : listing'.log[i].ok) =>
        /\ \A c \in DOMAIN calls :
              (calls[c].pc = "done" /\ Exists(calls[c].path)) =>
                  \E i \in DOMAIN listing'.files :
                      /\ listing'.files[i].path = calls[c].path
                      /\ <<calls[c].file.type[1], listing'.files[i].category>>
                            \in {<<"video", <<"videos">>>>,
                                 <<"audio", <<"audio">>>>,
                                 <<"image", <<"images">>>>}
        /\ \A i \in DOMAIN listing'.files : Exists(listing'.files[i].path)

\* C29: the round trip: what is kept and deleted, and what a listing shows
C29_RoundTrip == []C29_RoundTripKept /\ [][C29_RoundTripListed]_vars

(***************************************************************************)
(* C30: of the toasts created through one uploadProgress handle at most    *)
(* one is live and the progress shown never exceeds 100; an updateProgress *)
(* while no toast id is held creates a toast under a fresh id, a later     *)
(* updateProgress before complete updates the toast of that same id and    *)
(* creates none, and complete dismisses the toast and leaves none live.    *)
(***************************************************************************)
C30_OneLiveToast ==
    /\ Cardinality(DOMAIN upload.live) <= 1
    /\ upload.toastId = <<>> => upload.live = <<>>
    /\ upload.toastId # <<>> =>
          /\ DOMAIN upload.live \subseteq {upload.toastId[1]}
          /\ upload.toastId[1] = upload.issued
    /\ \A id \in DOMAIN upload.live :
          upload.live[id] <= 100 /\ upload.live[id] = upload.currentProgress
    /\ upload.currentProgress <= 100

C30_ToastSteps ==
    /\ (upload.toastId = <<>> /\ upload'.toastId # <<>>) =>
          /\ upload'.issued = upload.issued + 1
          /\ upload'.toastId = <<upload'.issued>>
          /\ DOMAIN upload'.live = {upload'.issued}
    /\ (upload.toastId # <<>> /\ upload'.toastId # <<>>) =>
          /\ upload'.toastId = upload.toastId
          /\ upload'.issued = upload.issued
    /\ upload'.toastId = <<>> =>
          upload'.live = <<>> /\ upload'.issued = upload.issued

\* C30: at most one live toast per upload handle, after any sequence of
\* updateProgress and complete calls
C30_UploadToast == []C30_OneLiveToast /\ [][C30_ToastSteps]_vars

C30_Witness ==
    /\ upload.issued = 2
    /\ upload.toastId = <<2>>
    /\ DOMAIN upload.live = {2}
    /\ upload.live[2] = 100

====
